---- MODULE Spec2Model ----
(***************************************************************************)
(* Model of src/js/database.js: the interaction tracker that records       *)
(* anonymous learning sessions, question attempts and final-answer inputs  *)
(* in a remote tabular store.                                              *)
(*                                                                         *)
(* Every public function is an async function: its code runs atomically    *)
(* from one await to the next.  A call in flight is a task; pc names the   *)
(* await it is suspended at and its fields hold the locals and the payload *)
(* of the request it has issued.  A Call* action is the code from the      *)
(* entry of a function to its first await (or to its return, when a guard  *)
(* fails); an After* action is one turn of the event loop in which the     *)
(* answer to the awaited request arrives: the store takes the request      *)
(* (or fails it) and the code runs on to the next await or to the return.  *)
(* Calls of different tasks interleave freely at the awaits.               *)
(*                                                                         *)
(* The store is transactional: a request that answers with an error or     *)
(* throws has changed nothing.  Columns the tracker only passes through    *)
(* (page_url, user_agent, question_file, question_name, seed, score,       *)
(* max_score, is_correct, input_type, validation_result) are left out of   *)
(* the rows.  The clock read by new Date() and Date.now() is the number of *)
(* calls made so far, and a new anonymous token is the clock reading at    *)
(* its creation.                                                           *)
(***************************************************************************)
EXTENDS Bags, FiniteSets, Integers, Sequences, TLC

\* ---------------------------------------------------------------- bounds
MaxTasks == 2     \* calls that may be in flight at the same time
MaxCalls == 4     \* calls made by the host page in one behaviour

\* ---------------------------------------------------------------- inputs
Prefixes    == {"q1", "q2"}
InputNames  == {"ans1", "ans2"}
InputValues == {"x", "y"}
SessionIds  == {1, 2}        \* identifiers the store may assign
AttemptIds  == {11, 12, 13}
InputIds    == {21, 22}

NoToken  == 0                 \* localStorage.getItem gives null
NullRow  == [id |-> 0]        \* JavaScript null / undefined data
NoError  == [code |-> "none", msgAnon |-> FALSE]

\* error results of the store: undefined column (42703), an error of another
\* code whose message mentions anonymous_id, and any other error
OtherError == [code |-> "other", msgAnon |-> FALSE]
Errors ==
  { [code |-> "42703", msgAnon |-> FALSE],
    [code |-> "other", msgAnon |-> TRUE],
    OtherError }

VARIABLES
  supabase,            \* TRUE iff the store client is configured
  localStorage,        \* value under key anonymousUserId, NoToken if absent
  currentSession,      \* row of learning_sessions or NullRow
  currentAttempts,     \* prefix -> row of question_attempts or NullRow
  learning_sessions,   \* the three tables, rows in insertion order
  question_attempts,
  input_tracking,
  tasks,               \* the calls in flight, a bag of task records
  calls,               \* number of calls made so far; also the clock
  ret,                 \* the call that returned in the last step, or NoRet
  last,                \* the final-answer call that returned most recently
  numbers,             \* prefix -> attempt number the latest createAttempt
                       \* call past the guard used, 0 before the first
  overlapped           \* TRUE iff some call was made while another call
                       \* was in flight

store == <<learning_sessions, question_attempts, input_tracking>>
mem   == <<currentSession, currentAttempts>>
vars  == <<supabase, localStorage, currentSession, currentAttempts,
           learning_sessions, question_attempts, input_tracking,
           tasks, calls, ret, last, numbers, overlapped>>

\* ------------------------------------------------------------- task state
IdleTask ==
  [ pc |-> "idle",
    qprefix |-> "none", inputName |-> "none", inputValue |-> "none",
    isFinalAnswer |-> FALSE, ts |-> 0,
    anonymousId |-> NoToken, attemptNumber |-> 0, attempt |-> NullRow,
    sid |-> 0, attemptExists |-> 0, existing |-> 0,
    inserts |-> 0, firstErr |-> NoError, ok |-> TRUE, status |-> "none" ]

NoRet == [op |-> "none"]

\* summary of a returned call: what it was called with, what it did (the
\* await it ended at, the status of the last answer, whether every request
\* was answered with success), what it returned ("record", "empty", or
\* "thrown" for a rejected promise) and, for trackInput, the final-answer
\* call that returned before it
Summary(t, op, result, data) ==
  [ op |-> op, result |-> result, data |-> data, pc |-> t.pc,
    qprefix |-> t.qprefix, inputName |-> t.inputName,
    inputValue |-> t.inputValue, isFinalAnswer |-> t.isFinalAnswer,
    aid |-> t.attempt.id, attemptExists |-> t.attemptExists,
    attemptNumber |-> t.attemptNumber,
    inserts |-> t.inserts, firstErr |-> t.firstErr,
    anonymousId |-> t.anonymousId, ok |-> t.ok, status |-> t.status,
    before |-> IF op = "trackInput" THEN last ELSE NoRet ]

\* what `last` keeps of a call: final-answer calls that reached the store
Kept(t, op) ==
  IF op = "trackInput" /\ t.isFinalAnswer /\ t.attempt.id # 0
    THEN [ op |-> op, aid |-> t.attempt.id, inputName |-> t.inputName,
           inputValue |-> t.inputValue, pc |-> t.pc, ok |-> t.ok ]
    ELSE NoRet

Returned(t, op, result, data) ==
  /\ ret'  = Summary(t, op, result, data)
  /\ last' = Kept(t, op)

NoReturn == ret' = NoRet /\ last' = last

\* the clock: new Date() and Date.now() read the number of calls made
Now == calls

\* ------------------------------------------------------------------ store
Ids(table) == { table[i].id : i \in 1..Len(table) }
Rows(table) == { table[i] : i \in 1..Len(table) }
RowOf(table, id) == table[CHOOSE i \in 1..Len(table) : table[i].id = id]
Replace(table, row) ==
  [i \in 1..Len(table) |-> IF table[i].id = row.id THEN row ELSE table[i]]
Least(S) == CHOOSE x \in S : \A y \in S : x <= y

\* an answer of the store
Ok(row)    == [status |-> "ok", data |-> row, error |-> NoError]
Failed(e)  == [status |-> "error", data |-> NullRow, error |-> e]
Throws     == [status |-> "throw", data |-> NullRow, error |-> NoError]

\* any request may fail with an error result or throw; nothing is written
Failures(errors) == { Failed(e) : e \in errors } \cup {Throws}

\* learning_sessions insert: the row gets the next identifier
InsertSession(payload) ==
  LET free == SessionIds \ Ids(learning_sessions) IN
  IF free = {} THEN {}
  ELSE { Ok([id |-> Least(free), anonymous_id |-> payload.anonymousId,
             session_end |-> 0]) }

\* question_attempts insert: the row gets any identifier not in use
InsertAttempt(payload) ==
  { Ok([id |-> id, session_id |-> payload.sid,
        question_prefix |-> payload.qprefix,
        attempt_number |-> payload.attemptNumber,
        submitted_at |-> 0]) : id \in AttemptIds \ Ids(question_attempts) }

\* question_attempts update matched by id, select().single()
UpdateAttempt(payload) ==
  IF payload.attempt.id \in Ids(question_attempts)
    THEN { Ok([RowOf(question_attempts, payload.attempt.id)
                 EXCEPT !.submitted_at = payload.ts]) }
    ELSE { Failed(OtherError) }

\* question_attempts select('id') matched by id, maybeSingle()
SelectAttempt(payload) ==
  IF payload.attempt.id \in Ids(question_attempts)
    THEN { Ok([id |-> payload.attempt.id]) }
    ELSE { Ok(NullRow) }

\* the rows of input_tracking a final-answer lookup matches
Matching(attemptId, inputName) ==
  { r \in Rows(input_tracking) :
      /\ r.attempt_id = attemptId
      /\ r.input_name = inputName
      /\ r.is_final_answer }

\* input_tracking select('id') by attempt, name and flag, maybeSingle():
\* no row gives null, one row gives it, several rows give an error result
SelectInput(payload) ==
  LET m == Matching(payload.attempt.id, payload.inputName) IN
  IF m = {} THEN { Ok(NullRow) }
  ELSE IF Cardinality(m) = 1 THEN { Ok([id |-> (CHOOSE r \in m : TRUE).id]) }
  ELSE { Failed(OtherError) }

\* as UpdateInput, leaving input_value out of the update
UpdateInputKeepsValue(payload) ==
  IF payload.existing \in Ids(input_tracking)
    THEN { Ok([RowOf(input_tracking, payload.existing)
                 EXCEPT !.timestamp = payload.ts]) }
    ELSE { Failed(OtherError) }

\* input_tracking update matched by id, select().single()
UpdateInput(payload) ==
  IF payload.existing \in Ids(input_tracking)
    THEN { Ok([RowOf(input_tracking, payload.existing)
                 EXCEPT !.input_value = payload.inputValue,
                        !.timestamp = payload.ts]) }
    ELSE { Failed(OtherError) }

\* as InsertInput, were the insert an upsert on attempt, name and flag: a
\* matching record is given back with the new value in place of a new row
InsertInputOnConflict(payload) ==
  LET m == Matching(payload.attempt.id, payload.inputName)
      free == InputIds \ Ids(input_tracking) IN
  IF m # {}
    THEN { Ok([(CHOOSE r \in m : TRUE) EXCEPT
                 !.input_value = payload.inputValue]) }
  ELSE IF free = {} THEN {}
  ELSE { Ok([id |-> Least(free), attempt_id |-> payload.attempt.id,
             session_id |-> payload.sid,
             input_name |-> payload.inputName,
             input_value |-> payload.inputValue,
             is_final_answer |-> TRUE, timestamp |-> 0]) }

\* input_tracking insert: the row gets the next identifier; the store has
\* no uniqueness constraint, whatever rows it holds the insert adds one
InsertInput(payload) ==
  LET free == InputIds \ Ids(input_tracking) IN
  IF free = {} THEN {}
  ELSE { Ok([id |-> Least(free), attempt_id |-> payload.attempt.id,
             session_id |-> payload.sid,
             input_name |-> payload.inputName,
             input_value |-> payload.inputValue,
             is_final_answer |-> TRUE, timestamp |-> 0]) }

\* ---------------------------------------------------------------- calls
\* the host page makes MaxCalls calls, at most MaxTasks of them in flight
CanCall ==
  /\ BagCardinality(tasks) < MaxTasks
  /\ calls < MaxCalls

Enter(new)     == tasks' = tasks (+) SetToBag({new})
Leave(t)       == tasks' = tasks (-) SetToBag({t})
Become(t, new) == tasks' = (tasks (-) SetToBag({t})) (+) SetToBag({new})

\* as Caught, were trackConsolidatedInput returned without being awaited:
\* a throw inside it would escape the try of trackInput
CaughtOutsideConsolidation(pc) ==
  pc \notin {"cons_lookup", "cons_update", "cons_insert"}

\* the try/catch of the public functions: a throw at this await is caught
Caught(pc) == TRUE

\* how a call ends when the request it awaits throws
Thrown(t, op) ==
  IF Caught(t.pc)
    THEN Returned(t, op, "empty", NullRow)
    ELSE Returned(t, op, "thrown", NullRow)

\* the task after the answer r to its request
Answered(t, r) ==
  [t EXCEPT !.ok = t.ok /\ r.status = "ok", !.status = r.status]

\* as generateAnonymousId, without the test of the stored token
generateAnonymousIdAlways(fresh) == fresh

\* generateAnonymousId: the token in client storage, created when absent
generateAnonymousId(fresh) ==
  IF localStorage = NoToken THEN fresh ELSE localStorage

\* the guards at the entry of the public functions, each preceded by the
\* guard with one of its tests left out
InitNeverDisabled == FALSE
InitDisabled      == ~supabase

CreateUnavailableNoSessionTest == ~supabase
CreateUnavailable              == ~supabase \/ currentSession = NullRow

UpdateUnavailableNoAttemptTest(p) == ~supabase
UpdateUnavailable(p)              == ~supabase \/ currentAttempts[p] = NullRow

TrackUnavailable == ~supabase \/ currentSession = NullRow

TrackNoAttemptNever(p) == FALSE
TrackNoAttempt(p)      == currentAttempts[p] = NullRow

EndUnavailable == ~supabase \/ currentSession = NullRow

\* initializeDatabaseSession(), up to its first await
CallInit ==
  /\ CanCall
  /\ calls' = calls + 1
  /\ overlapped' = (overlapped \/ tasks # EmptyBag)
  /\ IF InitDisabled
       THEN /\ Returned(IdleTask, "initializeSession", "empty", NullRow)
            /\ UNCHANGED <<localStorage, tasks>>
       ELSE /\ localStorage' = generateAnonymousId(Now + 1)
            /\ Enter(
                   [IdleTask EXCEPT !.pc = "init_insert",
                                    !.anonymousId = localStorage',
                                    !.inserts = 1])
            /\ NoReturn
  /\ UNCHANGED <<supabase, numbers, mem, store>>

\* as MissingAnonymousId, testing the code alone
MissingAnonymousIdByCode(error) == error.code = "42703"

\* the fallback test of the first insert's error
MissingAnonymousId(error) == error.code = "42703" \/ error.msgAnon

\* the payload of the retry: the anonymous identity is left out
fallbackPayload(t) == [t EXCEPT !.anonymousId = NoToken]

\* as failedSession, were the data of the answer assigned before the test
\* of its error
failedSessionAssigned(r) == r.data

\* currentSession after an insert that failed or threw: the assignment of
\* the created session is not reached
failedSession(r) == currentSession

\* initializeDatabaseSession after the first insert
AfterInitInsert(t) ==
  /\ t.pc = "init_insert"
  /\ \E r \in InsertSession(t) \cup Failures(Errors) :
       LET me == Answered(t, r) IN
       IF r.status = "throw"
         THEN /\ Thrown(me, "initializeSession")
              /\ Leave(t)
              /\ currentSession' = failedSession(r)
              /\ UNCHANGED learning_sessions
       ELSE IF r.status = "error" /\ MissingAnonymousId(r.error)
         THEN /\ Become(t,
                     [fallbackPayload(me) EXCEPT !.pc = "init_fallback",
                                                 !.inserts = 2,
                                                 !.firstErr = r.error])
              /\ NoReturn
              /\ UNCHANGED <<currentSession, learning_sessions>>
       ELSE IF r.status = "error"
         THEN /\ Returned([me EXCEPT !.firstErr = r.error],
                          "initializeSession", "empty", NullRow)
              /\ Leave(t)
              /\ currentSession' = failedSession(r)
              /\ UNCHANGED learning_sessions
       ELSE /\ learning_sessions' = Append(learning_sessions, r.data)
            /\ currentSession' = r.data
            /\ Returned(me, "initializeSession", "record", r.data)
            /\ Leave(t)
  /\ UNCHANGED <<supabase, overlapped, numbers, localStorage,
                 currentAttempts, question_attempts, input_tracking, calls>>

\* initializeDatabaseSession after the fallback insert
AfterInitFallback(t) ==
  /\ t.pc = "init_fallback"
  /\ \E r \in InsertSession(t) \cup Failures(Errors) :
       LET me == Answered(t, r) IN
       IF r.status = "throw"
         THEN /\ Thrown(me, "initializeSession")
              /\ currentSession' = failedSession(r)
              /\ UNCHANGED learning_sessions
       ELSE IF r.status = "error"
         THEN /\ Returned(me, "initializeSession", "empty", NullRow)
              /\ currentSession' = failedSession(r)
              /\ UNCHANGED learning_sessions
       ELSE /\ learning_sessions' = Append(learning_sessions, r.data)
            /\ currentSession' = r.data
            /\ Returned(me, "initializeSession", "record", r.data)
  /\ Leave(t)
  /\ UNCHANGED <<supabase, overlapped, numbers, localStorage,
                 currentAttempts, question_attempts, input_tracking, calls>>

\* as attemptNumber, were the cached attempt never found
attemptNumberAlwaysFirst(existingAttempt) == 1

\* as attemptNumber, without the increment
attemptNumberSame(existingAttempt) ==
  IF existingAttempt # NullRow THEN existingAttempt.attempt_number ELSE 1

\* the attempt number of a new attempt, from the cached attempt
attemptNumber(existingAttempt) ==
  IF existingAttempt # NullRow THEN existingAttempt.attempt_number + 1 ELSE 1

\* createQuestionAttempt(qfile, qname, qprefix, seed), up to its await
CallCreate ==
  /\ CanCall
  /\ calls' = calls + 1
  /\ overlapped' = (overlapped \/ tasks # EmptyBag)
  /\ \E p \in Prefixes :
       LET args == [IdleTask EXCEPT !.qprefix = p] IN
       IF CreateUnavailable
         THEN /\ Returned(args, "createAttempt", "empty", NullRow)
              /\ UNCHANGED <<tasks, numbers>>
         ELSE /\ numbers' = [numbers EXCEPT ![p] =
                                attemptNumber(currentAttempts[p])]
              /\ Enter(
                     [args EXCEPT !.pc = "create_insert",
                                  !.attemptNumber =
                                     attemptNumber(currentAttempts[p]),
                                  !.sid = currentSession.id])
              /\ NoReturn
  /\ UNCHANGED <<supabase, localStorage, mem, store>>

\* as cacheAttempt, keeping an attempt that is already cached
cacheAttemptIfAbsent(p, data) ==
  IF currentAttempts[p] = NullRow
    THEN [currentAttempts EXCEPT ![p] = data]
    ELSE currentAttempts

\* currentAttempts[qprefix] = data: the entry of the prefix is overwritten
cacheAttempt(p, data) == [currentAttempts EXCEPT ![p] = data]

\* createQuestionAttempt after the insert
AfterCreateInsert(t) ==
  /\ t.pc = "create_insert"
  /\ \E r \in InsertAttempt(t) \cup Failures({OtherError}) :
       LET me == Answered(t, r) IN
       IF r.status = "throw"
         THEN /\ Thrown(me, "createAttempt")
              /\ UNCHANGED <<currentAttempts, question_attempts>>
       ELSE IF r.status = "error"
         THEN /\ Returned(me, "createAttempt", "empty", NullRow)
              /\ UNCHANGED <<currentAttempts, question_attempts>>
       ELSE /\ question_attempts' = Append(question_attempts, r.data)
            /\ currentAttempts' = cacheAttempt(t.qprefix, r.data)
            /\ Returned(me, "createAttempt", "record", r.data)
  /\ Leave(t)
  /\ UNCHANGED <<supabase, overlapped, numbers, localStorage,
                 currentSession, learning_sessions, input_tracking, calls>>

\* updateQuestionAttempt(qprefix, score, maxScore, isCorrect), up to its await
CallUpdate ==
  /\ CanCall
  /\ calls' = calls + 1
  /\ overlapped' = (overlapped \/ tasks # EmptyBag)
  /\ \E p \in Prefixes :
       LET args == [IdleTask EXCEPT !.qprefix = p] IN
       IF UpdateUnavailable(p)
         THEN /\ Returned(args, "updateAttempt", "empty", NullRow)
              /\ UNCHANGED tasks
         ELSE /\ Enter(
                     [args EXCEPT !.pc = "update_update",
                                  !.attempt = currentAttempts[p],
                                  !.ts = Now + 1])
              /\ NoReturn
  /\ UNCHANGED <<supabase, numbers, localStorage, mem, store>>

\* as failedAttempts, were the data of the answer cached before the test
\* of its error
failedAttemptsAssigned(p, r) == [currentAttempts EXCEPT ![p] = r.data]

\* currentAttempts after an update that failed or threw: the cache is not
\* written, the handle read at the start of the call stays in place
failedAttempts(p, r) == currentAttempts

\* updateQuestionAttempt after the update
AfterUpdateUpdate(t) ==
  /\ t.pc = "update_update"
  /\ \E r \in UpdateAttempt(t) \cup Failures({OtherError}) :
       LET me == Answered(t, r) IN
       IF r.status = "throw"
         THEN /\ Thrown(me, "updateAttempt")
              /\ currentAttempts' = failedAttempts(t.qprefix, r)
              /\ UNCHANGED question_attempts
       ELSE IF r.status = "error"
         THEN /\ Returned(me, "updateAttempt", "empty", NullRow)
              /\ currentAttempts' = failedAttempts(t.qprefix, r)
              /\ UNCHANGED question_attempts
       ELSE /\ question_attempts' = Replace(question_attempts, r.data)
            /\ currentAttempts' =
                 [currentAttempts EXCEPT ![t.qprefix] = r.data]
            /\ Returned(me, "updateAttempt", "record", r.data)
  /\ Leave(t)
  /\ UNCHANGED <<supabase, overlapped, numbers, localStorage,
                 currentSession, learning_sessions, input_tracking, calls>>

\* name and value of an input are read for a final answer only
TrackedNames(f)  == IF f THEN InputNames ELSE {"none"}
TrackedValues(f) == IF f THEN InputValues ELSE {"none"}

\* trackInput(qprefix, inputName, inputValue, inputType, isFinalAnswer,
\* validationResult), up to its await; of a call that a guard turns away
\* only the prefix is recorded
CallTrack ==
  /\ CanCall
  /\ calls' = calls + 1
  /\ overlapped' = (overlapped \/ tasks # EmptyBag)
  /\ \E p \in Prefixes :
       IF TrackUnavailable
         THEN /\ Returned([IdleTask EXCEPT !.qprefix = p],
                          "trackInput", "empty", NullRow)
              /\ UNCHANGED tasks
       ELSE IF TrackNoAttempt(p)
         THEN /\ Returned([IdleTask EXCEPT !.qprefix = p],
                          "trackInput", "empty", NullRow)
              /\ UNCHANGED tasks
       ELSE \E f \in BOOLEAN :
            \E n \in TrackedNames(f), v \in TrackedValues(f) :
            /\ Enter([IdleTask EXCEPT !.pc = "track_verify",
                                       !.qprefix = p, !.inputName = n,
                                       !.inputValue = v, !.isFinalAnswer = f,
                                       !.attempt = currentAttempts[p]])
            /\ NoReturn
  /\ UNCHANGED <<supabase, numbers, localStorage, mem, store>>

\* as attemptMissing, without the test of the lookup's answer
attemptMissingNever(attemptExists) == FALSE

\* if (!attemptExists): the lookup of the attempt gave no row; only the
\* data of the answer is read, an error result gives none
attemptMissing(attemptExists) == attemptExists = NullRow

\* trackInput after the lookup of the attempt; a final answer enters
\* trackConsolidatedInput, which runs up to its own lookup
AfterTrackVerify(t) ==
  /\ t.pc = "track_verify"
  /\ \E r \in SelectAttempt(t) \cup Failures({OtherError}) :
       LET me == [Answered(t, r) EXCEPT !.attemptExists = r.data.id] IN
       IF r.status = "throw"
         THEN /\ Thrown(me, "trackInput")
              /\ Leave(t)
       ELSE IF attemptMissing(r.data) \/ ~me.isFinalAnswer
         THEN /\ Returned(me, "trackInput", "empty", NullRow)
              /\ Leave(t)
       ELSE /\ Become(t, [me EXCEPT !.pc = "cons_lookup"])
            /\ NoReturn
  /\ UNCHANGED <<supabase, overlapped, numbers, localStorage, mem, store,
                 calls>>

\* trackConsolidatedInput after the lookup: only the data of the answer is
\* read, so an error result counts as no record
AfterConsLookup(t) ==
  /\ t.pc = "cons_lookup"
  /\ \E r \in SelectInput(t) \cup Failures({OtherError}) :
       LET me == Answered(t, r) IN
       IF r.status = "throw"
         THEN /\ Thrown(me, "trackInput")
              /\ Leave(t)
       ELSE IF r.data # NullRow
         THEN /\ Become(t,
                     [me EXCEPT !.pc = "cons_update",
                                !.existing = r.data.id,
                                !.ts = Now])
              /\ NoReturn
       ELSE /\ Become(t,
                   [me EXCEPT !.pc = "cons_insert",
                              !.sid = currentSession.id])
            /\ NoReturn
  /\ UNCHANGED <<supabase, overlapped, numbers, localStorage, mem, store,
                 calls>>

\* trackConsolidatedInput after the update of the existing record
AfterConsUpdate(t) ==
  /\ t.pc = "cons_update"
  /\ \E r \in UpdateInput(t) \cup Failures({OtherError}) :
       LET me == Answered(t, r) IN
       IF r.status = "throw"
         THEN Thrown(me, "trackInput") /\ UNCHANGED input_tracking
       ELSE IF r.status = "error"
         THEN /\ Returned(me, "trackInput", "empty", NullRow)
              /\ UNCHANGED input_tracking
       ELSE /\ input_tracking' = Replace(input_tracking, r.data)
            /\ Returned(me, "trackInput", "record", r.data)
  /\ Leave(t)
  /\ UNCHANGED <<supabase, overlapped, numbers, localStorage, mem,
                 learning_sessions, question_attempts, calls>>

\* trackConsolidatedInput after the insert of a new record
AfterConsInsert(t) ==
  /\ t.pc = "cons_insert"
  /\ \E r \in InsertInput(t) \cup Failures({OtherError}) :
       LET me == Answered(t, r) IN
       IF r.status = "throw"
         THEN Thrown(me, "trackInput") /\ UNCHANGED input_tracking
       ELSE IF r.status = "error"
         THEN /\ Returned(me, "trackInput", "empty", NullRow)
              /\ UNCHANGED input_tracking
       ELSE /\ input_tracking' = Append(input_tracking, r.data)
            /\ Returned(me, "trackInput", "record", r.data)
  /\ Leave(t)
  /\ UNCHANGED <<supabase, overlapped, numbers, localStorage, mem,
                 learning_sessions, question_attempts, calls>>

\* endDatabaseSession(), also the beforeunload handler, up to its await
CallEnd ==
  /\ CanCall
  /\ calls' = calls + 1
  /\ overlapped' = (overlapped \/ tasks # EmptyBag)
  /\ IF EndUnavailable
       THEN /\ Returned(IdleTask, "endSession", "empty", NullRow)
            /\ UNCHANGED tasks
       ELSE /\ Enter(
                   [IdleTask EXCEPT !.pc = "end_update",
                                    !.sid = currentSession.id,
                                    !.ts = Now + 1])
            /\ NoReturn
  /\ UNCHANGED <<supabase, numbers, localStorage, mem, store>>

\* learning_sessions update of session_end matched by id (no select)
UpdateSession(payload) ==
  { Ok([id |-> payload.sid]) }

\* as endedSession, were the handle dropped with the end of the session
endedSessionCleared == NullRow

\* currentSession after endDatabaseSession: the handle is kept
endedSession == currentSession

\* endDatabaseSession after the update: nothing is returned
AfterEndUpdate(t) ==
  /\ t.pc = "end_update"
  /\ \E r \in UpdateSession(t) \cup Failures({OtherError}) :
       LET me == Answered(t, r) IN
       IF r.status = "throw"
         THEN Thrown(me, "endSession") /\ UNCHANGED learning_sessions
       ELSE IF r.status = "error"
         THEN /\ Returned(me, "endSession", "empty", NullRow)
              /\ UNCHANGED learning_sessions
       ELSE /\ learning_sessions' =
                 [i \in 1..Len(learning_sessions) |->
                    IF learning_sessions[i].id = me.sid
                      THEN [learning_sessions[i] EXCEPT !.session_end = me.ts]
                      ELSE learning_sessions[i]]
            /\ Returned(me, "endSession", "empty", NullRow)
  /\ Leave(t)
  /\ currentSession' = endedSession
  /\ UNCHANGED <<supabase, overlapped, numbers, localStorage,
                 currentAttempts, question_attempts, input_tracking, calls>>

\* ------------------------------------------------------- specifications
Init ==
  /\ supabase \in BOOLEAN
  /\ localStorage = NoToken
  /\ currentSession = NullRow
  /\ currentAttempts = [p \in Prefixes |-> NullRow]
  /\ learning_sessions = <<>>
  /\ question_attempts = <<>>
  /\ input_tracking = <<>>
  /\ tasks = EmptyBag
  /\ calls = 0
  /\ ret = NoRet
  /\ last = NoRet
  /\ numbers = [p \in Prefixes |-> 0]
  /\ overlapped = FALSE

Next ==
  \/ CallInit
  \/ CallCreate
  \/ CallUpdate
  \/ CallTrack
  \/ CallEnd
  \/ \E t \in BagToSet(tasks) :
       \/ AfterInitInsert(t)
       \/ AfterInitFallback(t)
       \/ AfterCreateInsert(t)
       \/ AfterUpdateUpdate(t)
       \/ AfterTrackVerify(t)
       \/ AfterConsLookup(t)
       \/ AfterConsUpdate(t)
       \/ AfterConsInsert(t)
       \/ AfterEndUpdate(t)

\* every interleaving of the calls
Spec == Init /\ [][Next]_vars

\* calls made one after the other: a call is made only when none is in flight
NoneInFlight == tasks = EmptyBag
SeqNext == Next /\ (calls' # calls => NoneInFlight)
SeqSpec == Init /\ [][SeqNext]_vars

\* ------------------------------------------------------------- properties
\* the attempts recorded for a prefix, in insertion order
AttemptsFor(p) ==
  SelectSeq(question_attempts, LAMBDA r : r.question_prefix = p)

\* the final-answer records of one input of one attempt
FinalRecords(aid, n) ==
  { r \in Rows(input_tracking) :
      r.attempt_id = aid /\ r.input_name = n /\ r.is_final_answer }

\* in this step a call entered the await pc with prefix p
Entered(pc, p) ==
  \E t \in BagToSet(tasks') :
    t.pc = pc /\ t.qprefix = p /\ tasks' = tasks (+) SetToBag({t})

\* in this step the function op was called with prefix p
Called(op, pc, p) ==
  /\ calls' = calls + 1
  /\ \/ Entered(pc, p)
     \/ ret'.op = op /\ ret'.qprefix = p

\* the call made in this step returned an empty result at once
TurnedAway(op) ==
  ret'.op = op /\ ret'.result = "empty" /\ ret'.pc = "idle"

\* C1 as stated: every createAttempt call made one after the other uses an
\* attempt number exactly 1 greater than the previous call for its prefix,
\* the first call using 1.
C1_EachCallOneMore ==
  [][\A p \in Prefixes :
       \A t \in BagToSet(tasks') :
         (t.pc = "create_insert" /\ t.qprefix = p
            /\ tasks' = tasks (+) SetToBag({t}))
         => t.attemptNumber = numbers[p] + 1]_vars

\* C1 as amended: when calls are made one after the other, a createAttempt
\* call uses 1 plus the number of attempts already inserted for its prefix,
\* so the rows of a prefix are numbered 1, 2, 3, ... in insertion order,
\* whatever their identifiers; a call after a failed insert reuses the number.
C1_NumbersFollowInserts ==
  /\ \A p \in Prefixes :
       \A i \in 1..Len(AttemptsFor(p)) : AttemptsFor(p)[i].attempt_number = i
  /\ \A t \in BagToSet(tasks) :
       t.pc = "create_insert"
         => t.attemptNumber = Len(AttemptsFor(t.qprefix)) + 1

\* three attempts of one prefix, the store's identifiers not in call order
C1_Witness ==
  \E p \in Prefixes :
    /\ Len(AttemptsFor(p)) = 3
    /\ AttemptsFor(p)[1].id > AttemptsFor(p)[2].id

\* the call that just returned and the call before it were final-answer
\* trackInput calls for the same attempt and input name
TwoFinalCalls ==
  /\ ret.op = "trackInput" /\ ret.isFinalAnswer /\ ret.aid # 0
  /\ ret.before.op = "trackInput"
  /\ ret.before.aid = ret.aid
  /\ ret.before.inputName = ret.inputName

\* exactly one final-answer record for the pair of the call that just
\* returned, holding the value of that call
OneRecordWithLatestValue ==
  /\ Cardinality(FinalRecords(ret.aid, ret.inputName)) = 1
  /\ \A r \in FinalRecords(ret.aid, ret.inputName) :
       r.input_value = ret.inputValue

C3_AtMostOneFinalRecord ==
  \A r1, r2 \in Rows(input_tracking) :
    (/\ r1.is_final_answer /\ r2.is_final_answer
     /\ r1.attempt_id = r2.attempt_id
     /\ r1.input_name = r2.input_name) => r1 = r2

\* C4: every call returns a record or an empty result, never a rejection,
\* whatever the store answered; a failed last request gives an empty result.
C4_NothingPropagates ==
  ret.op # "none" =>
    /\ ret.result \in {"record", "empty"}
    /\ ret.result = "record" => ret.data # NullRow
    /\ ret.status \in {"error", "throw"} => ret.result = "empty"

\* a throw of the insert inside the consolidation, returned as empty
C4_Witness ==
  /\ ret.op = "trackInput"
  /\ ret.pc = "cons_insert"
  /\ ret.status = "throw"
  /\ ret.result = "empty"

\* the first insert failed for the missing anonymous_id column
FirstInsertMissedColumn(t) ==
  t.firstErr.code = "42703" \/ t.firstErr.msgAnon

\* C5: after a missing-column error of the first insert exactly one more
\* insert is issued, without the anonymous identity; when it succeeds the
\* created session is returned and cached; no call issues a third insert.
C5_FallbackRetry ==
  /\ \A t \in BagToSet(tasks) :
       /\ t.inserts <= 2
       /\ t.pc = "init_fallback" =>
            t.inserts = 2 /\ t.anonymousId = NoToken
  /\ ret.op = "initializeSession" =>
       /\ ret.inserts <= 2
       /\ FirstInsertMissedColumn(ret) =>
            /\ ret.inserts = 2
            /\ ret.anonymousId = NoToken
            /\ ret.status = "ok" =>
                 /\ ret.result = "record"
                 /\ ret.data # NullRow
                 /\ ret.data.anonymous_id = NoToken
                 /\ currentSession = ret.data

\* the fallback succeeded after an error that only mentions the column
C5_Witness ==
  /\ ret.op = "initializeSession"
  /\ ret.firstErr.msgAnon /\ ret.firstErr.code # "42703"
  /\ ret.inserts = 2
  /\ ret.result = "record"
  /\ currentSession = ret.data

\* C6: trackInput for a prefix without a cached attempt returns empty at
\* once: no request is issued, store and memory stay as they were.
C6_TrackWithoutAttempt ==
  [][\A p \in Prefixes :
       Called("trackInput", "track_verify", p)
         /\ currentAttempts[p] = NullRow
       => /\ TurnedAway("trackInput")
          /\ UNCHANGED <<store, mem, tasks, localStorage>>]_vars

\* such a call, made with a session and an attempt of another prefix
C6_Witness ==
  /\ ret.op = "trackInput" /\ ret.pc = "idle"
  /\ currentSession # NullRow
  /\ currentAttempts[ret.qprefix] = NullRow
  /\ \E q \in Prefixes : currentAttempts[q] # NullRow

\* C7: updateAttempt for a prefix without a cached attempt returns empty at
\* once: no request is issued and currentAttempts stays as it was.
C7_UpdateWithoutAttempt ==
  [][\A p \in Prefixes :
       Called("updateAttempt", "update_update", p)
         /\ currentAttempts[p] = NullRow
       => /\ TurnedAway("updateAttempt")
          /\ UNCHANGED <<currentAttempts, tasks, store>>]_vars

\* such a call, made while another prefix has a cached attempt
C7_Witness ==
  /\ ret.op = "updateAttempt" /\ ret.pc = "idle"
  /\ supabase
  /\ currentAttempts[ret.qprefix] = NullRow
  /\ \E q \in Prefixes : currentAttempts[q] # NullRow

\* C8: createAttempt without a session, or without a configured store,
\* returns empty at once: no row is inserted, currentAttempts stays.
C8_CreateWithoutSession ==
  [][\A p \in Prefixes :
       Called("createAttempt", "create_insert", p)
         /\ (currentSession = NullRow \/ ~supabase)
       => /\ TurnedAway("createAttempt")
          /\ UNCHANGED <<question_attempts, currentAttempts, tasks>>]_vars

\* such a call, made after an initialization that failed
C8_Witness ==
  /\ ret.op = "createAttempt" /\ ret.pc = "idle"
  /\ supabase
  /\ currentSession = NullRow
  /\ localStorage # NoToken
  /\ tasks = EmptyBag

\* C9: every retrieval gives the token in client storage, which is written
\* once: each initialization in flight and each session created carries
\* the one stored token (a session of the fallback carries none).
C9_TokenStable ==
  /\ \A t \in BagToSet(tasks) :
       t.pc = "init_insert" =>
         t.anonymousId = localStorage /\ localStorage # NoToken
  /\ \A r \in Rows(learning_sessions) :
       r.anonymous_id \in {NoToken, localStorage}

\* two sessions created by two initializations carry the same token
C9_Witness ==
  /\ Len(learning_sessions) = 2
  /\ localStorage # NoToken
  /\ \A i \in 1..2 : learning_sessions[i].anonymous_id = localStorage

\* C10: without a configured store every call returns empty at once,
\* issues no request and changes neither store nor memory: they stay as
\* they were at page load.
C10_UnconfiguredNoOp ==
  ~supabase =>
    /\ ret.op # "none" => ret.result = "empty" /\ ret.pc = "idle"
    /\ tasks = EmptyBag
    /\ currentSession = NullRow
    /\ \A p \in Prefixes : currentAttempts[p] = NullRow
    /\ learning_sessions = <<>>
    /\ question_attempts = <<>>
    /\ input_tracking = <<>>
    /\ localStorage = NoToken

\* the last of several calls made without a configured store
C10_Witness ==
  /\ ~supabase
  /\ ret.op = "trackInput"
  /\ calls = 3
\* C11: an initializeSession call that returns an empty result has not
\* assigned currentSession; the only steps that change currentSession are
\* those in which an initialization returns the session it created.
C11_FailedInitKeepsSession ==
  [][/\ (ret'.op = "initializeSession" /\ ret'.result = "empty")
          => currentSession' = currentSession
     /\ currentSession' # currentSession
          => /\ ret'.op = "initializeSession"
             /\ ret'.result = "record"
             /\ currentSession' = ret'.data]_vars

\* the fallback insert failed too, after an earlier initialization had
\* succeeded: the earlier session is still the current one
C11_Witness ==
  /\ ret.op = "initializeSession" /\ ret.result = "empty"
  /\ ret.inserts = 2 /\ ret.status = "error"
  /\ currentSession # NullRow
  /\ currentSession \in Rows(learning_sessions)

\* C12 as stated: the only change the tracker makes to a session row is
\* setting its end timestamp, and a row whose end timestamp is set is not
\* changed by any later operation.
C12_MutatedOnce ==
  [][\A i \in 1..Len(learning_sessions) :
       /\ learning_sessions'[i] =
            [learning_sessions[i] EXCEPT
               !.session_end = learning_sessions'[i].session_end]
       /\ learning_sessions[i].session_end # 0
            => learning_sessions'[i] = learning_sessions[i]]_vars
\* the calls ret and ret.before were final-answer trackInput calls for the
\* same attempt and input name, each had every request answered with
\* success and each ended at the insert: both lookups found no record
BothLookedUpBothInserted ==
  /\ TwoFinalCalls
  /\ ret.pc = "cons_insert" /\ ret.ok /\ ret.result = "record"
  /\ ret.before.pc = "cons_insert" /\ ret.before.ok

\* C13: nothing stands between the lookup and the insert.  The store takes
\* every insert of a final-answer record as a new row with an identifier of
\* its own, whatever records it holds for the pair, so two calls that both
\* looked up before either inserted leave two final-answer records for the
\* pair (the interleaving is the trace to C13_Witness).
C13_BothInsert ==
  /\ \A i, j \in 1..Len(input_tracking) :
       input_tracking[i].id = input_tracking[j].id => i = j
  /\ (ret.op = "trackInput" /\ ret.pc = "cons_insert"
        /\ ret.result = "record")
       => ret.data \in FinalRecords(ret.aid, ret.inputName)
  /\ BothLookedUpBothInserted
       => Cardinality(FinalRecords(ret.aid, ret.inputName)) >= 2

\* two overlapping calls, both lookups answered with no record, both
\* inserts answered with success: two final-answer records for the pair
C13_Witness ==
  /\ BothLookedUpBothInserted
  /\ Cardinality(FinalRecords(ret.aid, ret.inputName)) = 2
\* currentAttempts[p] identifies the row inserted last for p
CachedIsLatest(p) ==
  LET rows == AttemptsFor(p) IN
  rows # <<>> => currentAttempts[p].id = rows[Len(rows)].id

\* C14 as stated: in every interleaving, whenever no call is in flight and
\* a createAttempt for p has succeeded, currentAttempts[p] identifies the
\* row inserted last for p.
C14_CachedIsLatest ==
  NoneInFlight => \A p \in Prefixes : CachedIsLatest(p)

\* C14 as amended: the same, as long as the calls were made one after the
\* other; and in every interleaving the cache entry of p is the row the
\* createAttempt or updateAttempt call for p that succeeded last got back,
\* a row of p in the store.
C14_CachedIsLatestInSequence ==
  /\ (NoneInFlight /\ ~overlapped) => \A p \in Prefixes : CachedIsLatest(p)
  /\ (ret.op \in {"createAttempt", "updateAttempt"} /\ ret.result = "record")
       => currentAttempts[ret.qprefix] = ret.data
  /\ \A p \in Prefixes :
       currentAttempts[p] # NullRow
         => \E i \in 1..Len(AttemptsFor(p)) :
              AttemptsFor(p)[i].id = currentAttempts[p].id

\* two attempts of a prefix, the second one updated: the cache holds the
\* updated row of the attempt inserted last
C14_Witness ==
  /\ NoneInFlight /\ ~overlapped
  /\ ret.op = "updateAttempt" /\ ret.result = "record"
  /\ Len(AttemptsFor(ret.qprefix)) = 2
  /\ currentAttempts[ret.qprefix] = AttemptsFor(ret.qprefix)[2]
  /\ currentAttempts[ret.qprefix].submitted_at # 0
\* C15: input_tracking is written only by a trackInput call for a final
\* answer, made with a session and a cached attempt, whose lookup of the
\* attempt gave a row; a call for a non-final input, or one whose lookup
\* gave no row or failed, returns empty and leaves input_tracking alone.
C15_WritesOnlyVerifiedFinal ==
  [][/\ input_tracking' # input_tracking
          => /\ ret'.op = "trackInput" /\ ret'.result = "record"
             /\ ret'.isFinalAnswer
             /\ supabase /\ currentSession # NullRow
             /\ currentAttempts[ret'.qprefix] # NullRow
             /\ ret'.attemptExists # 0
             /\ ret'.attemptExists = ret'.aid
             /\ ret'.aid \in Ids(question_attempts)
     /\ (ret'.op = "trackInput"
           /\ (~ret'.isFinalAnswer \/ ret'.attemptExists = 0))
          => ret'.result = "empty" /\ UNCHANGED input_tracking]_vars

\* a final answer whose lookup of the attempt failed, after a final answer
\* that was recorded: nothing is added
C15_Witness ==
  /\ ret.op = "trackInput" /\ ret.isFinalAnswer
  /\ ret.pc = "track_verify" /\ ret.status = "error"
  /\ ret.result = "empty"
  /\ Len(input_tracking) = 1
\* C16: when the update of updateAttempt fails (error result or throw) the
\* call returns empty and currentAttempts stays as it was; when it succeeds
\* the entry of the prefix, and no other, holds the updated row the store
\* returned.
C16_FailedUpdateKeepsCache ==
  [][(ret'.op = "updateAttempt" /\ ret'.pc = "update_update")
       => IF ret'.status = "ok"
            THEN /\ ret'.result = "record"
                 /\ ret'.data \in Rows(question_attempts')
                 /\ ret'.data.id = ret'.aid
                 /\ ret'.data.submitted_at # 0
                 /\ currentAttempts' =
                      [currentAttempts EXCEPT ![ret'.qprefix] = ret'.data]
            ELSE /\ ret'.result = "empty"
                 /\ currentAttempts' = currentAttempts]_vars

\* an update that failed after one that succeeded: the cache still holds
\* the row the earlier update returned
C16_Witness ==
  /\ ret.op = "updateAttempt" /\ ret.pc = "update_update"
  /\ ret.status \in {"error", "throw"} /\ ret.result = "empty"
  /\ currentAttempts[ret.qprefix].id = ret.aid
  /\ currentAttempts[ret.qprefix].submitted_at # 0
\* C17: in-memory state is never cleared.  Once currentSession holds a
\* session it holds one in every later state, and it changes only to the
\* session a later initialization created; once currentAttempts has an
\* entry for a prefix it has one in every later state.
C17_NeverCleared ==
  [][/\ currentSession # NullRow
          => /\ currentSession' # NullRow
             /\ currentSession' # currentSession
                  => /\ ret'.op = "initializeSession"
                     /\ currentSession' = ret'.data
     /\ \A p \in Prefixes :
          currentAttempts[p] # NullRow => currentAttempts'[p] # NullRow]_vars

\* the session was ended with success: its handle and the cached attempt
\* are still there
C17_Witness ==
  /\ ret.op = "endSession" /\ ret.status = "ok"
  /\ currentSession # NullRow
  /\ \E r \in Rows(learning_sessions) :
       r.id = currentSession.id /\ r.session_end # 0
  /\ \E p \in Prefixes : currentAttempts[p] # NullRow
\* no two rows of question_attempts of one session and one prefix carry
\* the same attempt number
NumbersDistinct ==
  \A i, j \in 1..Len(question_attempts) :
    (/\ question_attempts[i].session_id = question_attempts[j].session_id
     /\ question_attempts[i].question_prefix =
          question_attempts[j].question_prefix
     /\ question_attempts[i].attempt_number =
          question_attempts[j].attempt_number) => i = j

\* C18 as stated: in every interleaving of createAttempt and updateAttempt
\* calls no two rows inserted for the same session and prefix carry the
\* same attempt number.
C18_NumbersDistinct == NumbersDistinct

\* C18 as amended: the same, as long as the calls were made one after the
\* other.
C18_NumbersDistinctInSequence == ~overlapped => NumbersDistinct

\* three attempts of one prefix in one session, made one after the other
C18_Witness ==
  /\ ~overlapped /\ NoneInFlight
  /\ \E p \in Prefixes :
       /\ Len(AttemptsFor(p)) = 3
       /\ \A i \in 1..3 :
            AttemptsFor(p)[i].session_id = currentSession.id
\* C19: every record of input_tracking carries the session of the attempt
\* it refers to.
C19_SessionOfAttempt ==
  \A r \in Rows(input_tracking) :
    \E a \in Rows(question_attempts) :
      a.id = r.attempt_id /\ a.session_id = r.session_id
====
